---------------------------- MODULE Spec2Model ----------------------------
(***************************************************************************)
(* A model of src/nodes.py: the tutorial pipeline FetchRepo ->              *)
(* IdentifyAbstractions -> AnalyzeRelationships -> OrderChapters ->         *)
(* WriteChapters -> CombineTutorial over the shared dictionary.             *)
(*                                                                          *)
(* Python strings are sequences of atoms.  An atom is one character, except *)
(* for a few fixed words of the code's string literals ("Chapter", "True",  *)
(* ".git", ...) that no modelled input spells out letter by letter.         *)
(* Parsed YAML values are records tagged by their Python type in field t.   *)
(* A Python dict is a function from its keys; a missing key is a key that   *)
(* is not in the DOMAIN.                                                    *)
(***************************************************************************)
EXTENDS Integers, Sequences, FiniteSets, TLC

VARIABLES
    shared,        \* the shared dictionary handed to every node
    pc,            \* the node method the flow runs next
    error,         \* the exception that left the flow, NoError while none has
    writer,        \* WriteChapters' instance attributes (self.__dict__)
    prep_res,      \* the running node's prep result (WriteChapters, CombineTutorial)
    exec_res_list, \* BatchNode's results of the items executed so far
    response,      \* what the last call_llm returned, <<>> when it returned nothing
    llm_calls,     \* the prompts WriteChapters.exec has sent to call_llm, in order
    disk           \* the files CombineTutorial.exec has written, in order

vars == <<shared, pc, error, writer, prep_res, exec_res_list, response, llm_calls,
          disk>>

---------------------------------------------------------------------------
(* Bounds of the model *)

\* the longest list of files FetchRepo's crawl returns
MaxFiles == 2
\* the most abstraction items in an IdentifyAbstractions response
MaxAbs == 3
\* the most entries in one abstraction's file_indices
MaxIdx == 2
\* the most relationship items in an AnalyzeRelationships response
MaxRel == 2
\* the longest ordered list in an OrderChapters response
MaxOrder == 3

---------------------------------------------------------------------------
(* Python string operations *)

Whitespace == {" ", "\n", "\t"}

DigitChars == {"0", "1", "2", "3", "4", "5", "6", "7", "8", "9"}

DigitSeq == <<"0", "1", "2", "3", "4", "5", "6", "7", "8", "9">>

DigitVal(c) == (CHOOSE i \in 1..10 : DigitSeq[i] = c) - 1

\* s[i:] for a 1-based i
DropTo(s, i) == SubSeq(s, i, Len(s))

\* str.lstrip()
RECURSIVE LStrip(_)
LStrip(s) ==
    IF s # <<>> /\ Head(s) \in Whitespace THEN LStrip(Tail(s)) ELSE s

\* str.rstrip()
RECURSIVE RStrip(_)
RStrip(s) ==
    IF s # <<>> /\ s[Len(s)] \in Whitespace
    THEN RStrip(SubSeq(s, 1, Len(s) - 1))
    ELSE s

\* str.strip()
Strip(s) == RStrip(LStrip(s))

\* c in s
Contains(s, c) == \E i \in 1..Len(s) : s[i] = c

\* s.startswith(p)
StartsWith(s, p) == Len(p) <= Len(s) /\ SubSeq(s, 1, Len(p)) = p

\* s.endswith(p)
EndsWith(s, p) ==
    Len(p) <= Len(s) /\ SubSeq(s, Len(s) - Len(p) + 1, Len(s)) = p

\* s.split(c)[0]: the text before the first c, all of s when it holds none
SplitFirst(s, c) ==
    IF Contains(s, c)
    THEN SubSeq(s, 1, (CHOOSE i \in 1..Len(s) :
                          s[i] = c /\ \A j \in 1..(i - 1) : s[j] # c) - 1)
    ELSE s

\* s.split(c): the list of the pieces between the occurrences of atom c
RECURSIVE Split(_, _)
Split(s, c) ==
    IF Contains(s, c)
    THEN <<SplitFirst(s, c)>> \o Split(DropTo(s, Len(SplitFirst(s, c)) + 2), c)
    ELSE <<s>>

\* sep.join(parts)
RECURSIVE Join(_, _)
Join(sep, parts) ==
    IF parts = <<>> THEN <<>>
    ELSE IF Len(parts) = 1 THEN parts[1]
    ELSE parts[1] \o sep \o Join(sep, Tail(parts))

\* s.replace(c, r) for one atom c and a replacement string r
RECURSIVE Replace(_, _, _)
Replace(s, c, r) ==
    IF s = <<>> THEN <<>>
    ELSE (IF Head(s) = c THEN r ELSE <<Head(s)>>) \o Replace(Tail(s), c, r)

\* the decimal digits of a natural number
RECURSIVE NatStr(_)
NatStr(n) ==
    IF n < 10 THEN <<DigitSeq[n + 1]>>
    ELSE NatStr(n \div 10) \o <<DigitSeq[(n % 10) + 1]>>

\* str(n) of an int
IntStr(n) == IF n < 0 THEN <<"-">> \o NatStr(0 - n) ELSE NatStr(n)

\* f"{n:02d}" of a natural number
Pad2(n) == IF n < 10 THEN <<"0">> \o NatStr(n) ELSE NatStr(n)

RECURSIVE DigitsVal(_, _)
DigitsVal(s, acc) ==
    IF s = <<>> THEN acc
    ELSE IF Head(s) = "_" THEN DigitsVal(Tail(s), acc)
    ELSE DigitsVal(Tail(s), 10 * acc + DigitVal(Head(s)))

\* the digits of an int literal: digits, single underscores between them allowed
IsDigits(s) ==
    /\ s # <<>>
    /\ \A i \in 1..Len(s) : s[i] \in DigitChars \cup {"_"}
    /\ s[1] \in DigitChars
    /\ s[Len(s)] \in DigitChars
    /\ \A i \in 1..(Len(s) - 1) : ~(s[i] = "_" /\ s[i + 1] = "_")

\* int(b) of a stripped str: one sign, then digits; anything else raises
\* ValueError
IntLiteral(b) ==
    LET signed == b # <<>> /\ Head(b) \in {"+", "-"}
        d == IF signed THEN Tail(b) ELSE b
    IN  IF IsDigits(d)
        THEN [ok |-> TRUE,
              v |-> IF signed /\ Head(b) = "-"
                    THEN 0 - DigitsVal(d, 0) ELSE DigitsVal(d, 0)]
        ELSE [ok |-> FALSE,
              err |-> [exc |-> "ValueError", msg |-> "invalid literal for int()",
                       arg |-> b, context |-> "none"]]

\* int(s) of a str: surrounding whitespace is ignored
PyInt(s) == IntLiteral(Strip(s))

---------------------------------------------------------------------------
(* Parsed YAML values *)

YInt(n) == [t |-> "int", v |-> n]
YBool(b) == [t |-> "bool", b |-> b]
YStr(s) == [t |-> "str", s |-> s]
YFloat(whole, frac) == [t |-> "float", whole |-> whole, frac |-> frac]
YNull == [t |-> "null"]
YList(items) == [t |-> "list", items |-> items]
YDict(m) == [t |-> "dict", m |-> m]

\* isinstance(x, int): bool is a subclass of int
IsInt(x) == x.t \in {"int", "bool"}

\* the int an int or bool compares equal to
IntOf(x) == IF x.t = "bool" THEN (IF x.b THEN 1 ELSE 0) ELSE x.v

\* str(x) of a scalar
PyStr(x) ==
    CASE x.t = "int" -> IntStr(x.v)
      [] x.t = "bool" -> IF x.b THEN <<"True">> ELSE <<"False">>
      [] x.t = "str" -> x.s
      [] x.t = "float" -> IntStr(x.whole) \o <<".">> \o NatStr(x.frac)
      [] OTHER -> <<"None">>

---------------------------------------------------------------------------
(* Exceptions *)

NoError == [exc |-> "none"]

\* raise exc(msg: arg); context is the message of the exception being handled
\* when this one was raised ("none" outside a handler)
Raise(exc, msg, arg, context) ==
    [exc |-> exc, msg |-> msg, arg |-> arg, context |-> context]

Ok(v) == [ok |-> TRUE, v |-> v]
Fail(e) == [ok |-> FALSE, err |-> e]

\* the statements after one that may raise: F runs on its value, an exception
\* passes through
Bind(r, F(_)) == IF r.ok THEN F(r.v) ELSE r

\* try: r / except: H
Catch(r, H(_)) == IF r.ok THEN r ELSE H(r)

---------------------------------------------------------------------------
(* The LLM response and the fenced YAML block *)

\* A response is a sequence of pieces: the start marker (three backticks and
\* the word yaml), the bare fence (three backticks), the text of one well-formed
\* YAML document (by the value it loads to), and prose that is not well-formed
\* YAML.
POpen == [p |-> "fence_yaml"]
PFence == [p |-> "fence"]
PYaml(doc) == [p |-> "yaml", doc |-> doc]
PText == [p |-> "text"]

\* the response the prompts ask for: one fenced YAML block
Fenced(doc) == <<POpen, PYaml(doc), PFence>>

\* the pieces of s before the first piece equal to m, all of s when there is none
Before(s, m) ==
    IF \E i \in 1..Len(s) : s[i] = m
    THEN SubSeq(s, 1, (CHOOSE i \in 1..Len(s) :
                          s[i] = m /\ \A j \in 1..(i - 1) : s[j] # m) - 1)
    ELSE s

\* an extraction that takes what follows the last start marker
ExtractAfterLastMarker(resp) ==
    IF ~\E i \in 1..Len(resp) : resp[i] = POpen
    THEN Fail(Raise("IndexError", "list index out of range", "fence_yaml", "none"))
    ELSE Ok(Before(DropTo(resp, (CHOOSE i \in 1..Len(resp) :
                                    resp[i] = POpen
                                    /\ \A j \in (i + 1)..Len(resp) : resp[j] # POpen) + 1),
                   PFence))

\* response.strip().split(start marker)[1].split(fence)[0].strip(): IndexError
\* when the response holds no start marker
ExtractYaml(resp) ==
    IF ~\E i \in 1..Len(resp) : resp[i] = POpen
    THEN Fail(Raise("IndexError", "list index out of range", "fence_yaml", "none"))
    ELSE LET after == DropTo(resp, Len(Before(resp, POpen)) + 2)
         IN  Ok(Before(Before(after, POpen), PFence))

\* yaml.safe_load(yaml_str): empty text loads to None; text that is not one
\* well-formed document raises yaml.YAMLError
SafeLoad(interior) ==
    IF interior = <<>> THEN Ok(YNull)
    ELSE IF Len(interior) = 1 /\ interior[1].p = "yaml" THEN Ok(interior[1].doc)
    ELSE Fail(Raise("YAMLError", "could not load the document", "yaml_str", "none"))

\* the two lines of every exec that turn the response into parsed data
LoadResponse(resp) == Bind(ExtractYaml(resp), LAMBDA yaml_str : SafeLoad(yaml_str))

---------------------------------------------------------------------------
(* Index entries *)

\* The body of the try blocks of IdentifyAbstractions.exec and
\* OrderChapters.exec up to the range check: an int, a str "idx # comment", or
\* anything whose str() is an int literal.
FlexibleIndex(entry) ==
    IF IsInt(entry) THEN Ok(IntOf(entry))
    ELSE IF entry.t = "str" /\ Contains(entry.s, "#")
    THEN PyInt(SplitFirst(entry.s, "#"))
    ELSE PyInt(PyStr(entry))

\* int(str(x).split('#')[0].strip()) of AnalyzeRelationships.exec
RelationIndex(x) == PyInt(SplitFirst(PyStr(x), "#"))

\* set(xs) of a list
ToSet(xs) == {xs[i] : i \in 1..Len(xs)}

\* sorted(S) of a set of ints
RECURSIVE Sorted(_)
Sorted(S) ==
    IF S = {} THEN <<>>
    ELSE LET m == CHOOSE x \in S : \A y \in S : x <= y
         IN  <<m>> \o Sorted(S \ {m})

---------------------------------------------------------------------------
(* IdentifyAbstractions *)

\* the range check inside the try block
IdentifyRangeCheck(idx, file_count, name) ==
    IF ~(0 <= idx /\ idx < file_count)
    THEN Fail(Raise("ValueError", "Invalid file index",
                    [idx |-> idx, item |-> name, max |-> file_count - 1], "none"))
    ELSE Ok(idx)

\* except (ValueError, TypeError): every exception of the try block, the range
\* check's own ValueError included, is replaced by this one
IdentifyExcept(inner, idx_entry, name) ==
    Fail(Raise("ValueError", "Could not parse index from entry",
               [entry |-> idx_entry, item |-> name], inner.err.msg))

\* one pass of the loop over item["file_indices"]
IdentifyIndex(idx_entry, file_count, name) ==
    Catch(Bind(FlexibleIndex(idx_entry),
               LAMBDA idx : IdentifyRangeCheck(idx, file_count, name)),
          LAMBDA inner : IdentifyExcept(inner, idx_entry, name))

\* the loop over item["file_indices"]: validated_indices, or the first raise
RECURSIVE ValidateIndices(_, _, _)
ValidateIndices(entries, file_count, name) ==
    IF entries = <<>> THEN Ok(<<>>)
    ELSE Bind(IdentifyIndex(Head(entries), file_count, name),
              LAMBDA idx :
                  Bind(ValidateIndices(Tail(entries), file_count, name),
                       LAMBDA rest : Ok(<<idx>> \o rest)))

\* the indices in the order and number the response gave them
FilesAsListed(validated_indices) == validated_indices

\* item["files"] = sorted(list(set(validated_indices)))
FilesOf(validated_indices) == Sorted(ToSet(validated_indices))

AbstractionKeys == {"name", "description", "file_indices"}

\* one pass of the loop over the parsed abstractions
IdentifyItem(item, file_count) ==
    IF item.t # "dict" \/ ~(AbstractionKeys \subseteq DOMAIN item.m)
    THEN Fail(Raise("ValueError", "Missing keys in abstraction item", item, "none"))
    ELSE IF item.m["description"].t # "str"
    THEN Fail(Raise("ValueError", "description is not a string", item, "none"))
    ELSE IF item.m["file_indices"].t # "list"
    THEN Fail(Raise("ValueError", "file_indices is not a list", item, "none"))
    ELSE Bind(ValidateIndices(item.m["file_indices"].items, file_count,
                              item.m["name"]),
              LAMBDA validated_indices :
                  Ok([name |-> item.m["name"],
                      description |-> item.m["description"],
                      files |-> FilesOf(validated_indices)]))

RECURSIVE IdentifyItems(_, _)
IdentifyItems(items, file_count) ==
    IF items = <<>> THEN Ok(<<>>)
    ELSE Bind(IdentifyItem(Head(items), file_count),
              LAMBDA abstraction :
                  Bind(IdentifyItems(Tail(items), file_count),
                       LAMBDA rest : Ok(<<abstraction>> \o rest)))

\* IdentifyAbstractions.exec after call_llm returned resp
IdentifyExec(resp, file_count) ==
    Bind(LoadResponse(resp),
         LAMBDA abstractions :
             IF abstractions.t # "list"
             THEN Fail(Raise("ValueError", "LLM Output is not a list", "none", "none"))
             ELSE IdentifyItems(abstractions.items, file_count))

---------------------------------------------------------------------------
(* Helpers over the file list *)

\* get_content_for_indices(files_data, indices): the keys "<i> # <path>" of the
\* content map, in insertion order; an index outside the list is skipped
RECURSIVE get_content_for_indices(_, _)
get_content_for_indices(files_data, indices) ==
    IF indices = <<>> THEN <<>>
    ELSE LET i == Head(indices)
             rest == get_content_for_indices(files_data, Tail(indices))
         IN  IF 0 <= i /\ i < Len(files_data)
             THEN <<[key |-> IntStr(i) \o <<" ", "#", " ">> \o files_data[i + 1].path,
                     content |-> files_data[i + 1].content]>> \o rest
             ELSE rest

---------------------------------------------------------------------------
(* AnalyzeRelationships *)

\* abstraction_info_for_prompt: the lines f"{i} # {abstr['name']}"
AbstractionInfo(abstractions) ==
    [i \in 1..Len(abstractions) |->
        IntStr(i - 1) \o <<" ", "#", " ">> \o PyStr(abstractions[i].name)]

\* AnalyzeRelationships.prep's second result: "\n".join(abstraction_info_for_prompt)
AbstractionListing(abstractions) == Join(<<"\n">>, AbstractionInfo(abstractions))

\* num_abstractions = len(abstraction_listing.split('\n'))
NumAbstractions(abstraction_listing) == Len(Split(abstraction_listing, "\n"))

RelationshipKeys == {"from_abstraction", "to_abstraction", "label"}

\* the range check inside the try block
RelationRangeCheck(from_idx, to_idx, num_abstractions) ==
    IF ~(/\ 0 <= from_idx /\ from_idx < num_abstractions
         /\ 0 <= to_idx /\ to_idx < num_abstractions)
    THEN Fail(Raise("ValueError", "Invalid index in relationship",
                    [from |-> from_idx, to |-> to_idx, max |-> num_abstractions - 1],
                    "none"))
    ELSE Ok([from |-> from_idx, to |-> to_idx])

\* except (ValueError, TypeError): replaces every exception of the try block
RelationExcept(inner, rel) ==
    Fail(Raise("ValueError", "Could not parse indices from relationship", rel,
               inner.err.msg))

\* one pass of the loop over relationships_data["relationships"]
RelationItem(rel, num_abstractions) ==
    IF rel.t # "dict" \/ ~(RelationshipKeys \subseteq DOMAIN rel.m)
    THEN Fail(Raise("ValueError", "Missing keys in relationship item", rel, "none"))
    ELSE IF rel.m["label"].t # "str"
    THEN Fail(Raise("ValueError", "Relationship label is not a string", rel, "none"))
    ELSE Catch(Bind(RelationIndex(rel.m["from_abstraction"]),
                    LAMBDA from_idx :
                        Bind(RelationIndex(rel.m["to_abstraction"]),
                             LAMBDA to_idx :
                                 Bind(RelationRangeCheck(from_idx, to_idx,
                                                         num_abstractions),
                                      LAMBDA ends :
                                          Ok([from |-> ends.from, to |-> ends.to,
                                              label |-> rel.m["label"].s])))),
               LAMBDA inner : RelationExcept(inner, rel))

RECURSIVE RelationItems(_, _)
RelationItems(rels, num_abstractions) ==
    IF rels = <<>> THEN Ok(<<>>)
    ELSE Bind(RelationItem(Head(rels), num_abstractions),
              LAMBDA relationship :
                  Bind(RelationItems(Tail(rels), num_abstractions),
                       LAMBDA rest : Ok(<<relationship>> \o rest)))

\* what AnalyzeRelationships.exec does with the parsed data
AnalyzeData(data, abstraction_listing) ==
    IF data.t # "dict" \/ ~({"summary", "relationships"} \subseteq DOMAIN data.m)
    THEN Fail(Raise("ValueError", "LLM output is not a dict or missing keys",
                    "none", "none"))
    ELSE IF data.m["summary"].t # "str"
    THEN Fail(Raise("ValueError", "summary is not a string", "none", "none"))
    ELSE IF data.m["relationships"].t # "list"
    THEN Fail(Raise("ValueError", "relationships is not a list", "none", "none"))
    ELSE Bind(RelationItems(data.m["relationships"].items,
                            NumAbstractions(abstraction_listing)),
              LAMBDA validated_relationships :
                  Ok([summary |-> data.m["summary"].s,
                      details |-> validated_relationships]))

\* AnalyzeRelationships.exec after call_llm returned resp
AnalyzeExec(resp, abstraction_listing) ==
    Bind(LoadResponse(resp), LAMBDA data : AnalyzeData(data, abstraction_listing))

---------------------------------------------------------------------------
(* OrderChapters *)

\* OrderChapters.prep: abstractions[rel['from']] and abstractions[rel['to']]
\* raise IndexError for an index past the list; the third result is
\* len(abstractions)
OrderPrep(abstractions, relationships) ==
    IF \E i \in 1..Len(relationships.details) :
          \/ relationships.details[i].from >= Len(abstractions)
          \/ relationships.details[i].to >= Len(abstractions)
    THEN Fail(Raise("IndexError", "list index out of range", "abstractions", "none"))
    ELSE Ok(Len(abstractions))

\* the checks of a loop that does not look at seen_indices
OrderChecksRangeOnly(idx, seen_indices, num_abstractions) ==
    IF ~(0 <= idx /\ idx < num_abstractions)
    THEN Fail(Raise("ValueError", "Invalid index in ordered list",
                    [idx |-> idx, max |-> num_abstractions - 1], "none"))
    ELSE Ok(idx)

\* the checks after the index is parsed, inside the try block
OrderChecks(idx, seen_indices, num_abstractions) ==
    IF ~(0 <= idx /\ idx < num_abstractions)
    THEN Fail(Raise("ValueError", "Invalid index in ordered list",
                    [idx |-> idx, max |-> num_abstractions - 1], "none"))
    ELSE IF idx \in seen_indices
    THEN Fail(Raise("ValueError", "Duplicate index found in ordered list",
                    [idx |-> idx], "none"))
    ELSE Ok(idx)

\* except (ValueError, TypeError): replaces every exception of the try block
OrderExcept(inner, entry) ==
    Fail(Raise("ValueError", "Could not parse index from ordered list entry",
               entry, inner.err.msg))

\* one pass of the loop over ordered_indices_raw
OrderEntry(entry, seen_indices, num_abstractions) ==
    Catch(Bind(FlexibleIndex(entry),
               LAMBDA idx : OrderChecks(idx, seen_indices, num_abstractions)),
          LAMBDA inner : OrderExcept(inner, entry))

\* the loop: ordered_indices and seen_indices once every entry is accepted, or
\* the first raise
RECURSIVE OrderLoop(_, _, _, _)
OrderLoop(raw, ordered_indices, seen_indices, num_abstractions) ==
    IF raw = <<>>
    THEN Ok([ordered_indices |-> ordered_indices, seen_indices |-> seen_indices])
    ELSE Bind(OrderEntry(Head(raw), seen_indices, num_abstractions),
              LAMBDA idx :
                  OrderLoop(Tail(raw), Append(ordered_indices, idx),
                            seen_indices \cup {idx}, num_abstractions))

\* an end of exec that returns the list whatever its length
OrderNoLengthCheck(ordered_indices, seen_indices, num_abstractions) ==
    Ok(ordered_indices)

\* "Check if all abstractions are included"
OrderLengthCheck(ordered_indices, seen_indices, num_abstractions) ==
    IF Len(ordered_indices) # num_abstractions
    THEN Fail(Raise("ValueError", "Ordered list length does not match number of abstractions",
                    [length |-> Len(ordered_indices),
                     missing |-> (0..(num_abstractions - 1)) \ seen_indices],
                    "none"))
    ELSE Ok(ordered_indices)

\* OrderChapters.exec after call_llm returned resp
OrderExec(resp, num_abstractions) ==
    Bind(LoadResponse(resp),
         LAMBDA ordered_indices_raw :
             IF ordered_indices_raw.t # "list"
             THEN Fail(Raise("ValueError", "LLM output is not a list", "none", "none"))
             ELSE Bind(OrderLoop(ordered_indices_raw.items, <<>>, {},
                                 num_abstractions),
                       LAMBDA l : OrderLengthCheck(l.ordered_indices, l.seen_indices,
                                                   num_abstractions)))

---------------------------------------------------------------------------
(* WriteChapters *)

Letters == {"A", "B", "X", "Y", "a", "b", "x", "y"}

\* c.isalnum() of one character
IsAlnum(c) == c \in Letters \cup DigitChars

\* c.lower() of one character
Lower(c) ==
    CASE c = "A" -> "a" [] c = "B" -> "b" [] c = "X" -> "x" [] c = "Y" -> "y"
      [] OTHER -> c

\* "".join(c if c.isalnum() else '_' for c in chapter_name).lower()
SafeName(chapter_name) ==
    [i \in 1..Len(chapter_name) |->
        Lower(IF IsAlnum(chapter_name[i]) THEN chapter_name[i] ELSE "_")]

\* a filename made of the name alone
NameOnlyFilename(i, chapter_name) == SafeName(chapter_name) \o <<".md">>

\* f"{i+1:02d}_{safe_name}.md" for the 0-based position i
ChapterFilename(i, chapter_name) ==
    Pad2(i + 1) \o <<"_">> \o SafeName(chapter_name) \o <<".md">>

\* a test that leaves out abstraction 0
PositivePosition(chapter_order, abstractions, i) ==
    0 < chapter_order[i] /\ chapter_order[i] < Len(abstractions)

\* the positions of chapter_order the loops do not skip
ValidPosition(chapter_order, abstractions, i) ==
    0 <= chapter_order[i] /\ chapter_order[i] < Len(abstractions)

\* a mapping that numbers the files by abstraction index, not by position
ChapterFilenamesByIndex(chapter_order, abstractions, upto) ==
    [a \in {chapter_order[p] : p \in {q \in 1..upto :
                                    /\ 0 <= chapter_order[q]
                                    /\ chapter_order[q] < Len(abstractions)}} |->
        LET p == CHOOSE q \in 1..upto :
                    chapter_order[q] = a /\ \A h \in (q + 1)..upto : chapter_order[h] # a
        IN  [num |-> p, name |-> abstractions[a + 1].name.s,
             filename |-> ChapterFilename(a, abstractions[a + 1].name.s)]]

\* chapter_filenames after the first loop: abstraction index -> {num, name,
\* filename}; a later position with the same abstraction index overwrites
RECURSIVE ChapterFilenames(_, _, _)
ChapterFilenames(chapter_order, abstractions, upto) ==
    IF upto = 0 THEN <<>>
    ELSE LET before == ChapterFilenames(chapter_order, abstractions, upto - 1)
             a == chapter_order[upto]
         IN  IF ValidPosition(chapter_order, abstractions, upto)
             THEN [k \in DOMAIN before \cup {a} |->
                     IF k = a
                     THEN [num |-> upto, name |-> abstractions[a + 1].name.s,
                           filename |-> ChapterFilename(upto - 1,
                                                        abstractions[a + 1].name.s)]
                     ELSE before[k]]
             ELSE before

\* all_chapters: f"{chapter_num}. [{chapter_name}]({filename})" per valid position
RECURSIVE AllChapters(_, _, _)
AllChapters(chapter_order, abstractions, upto) ==
    IF upto = 0 THEN <<>>
    ELSE LET before == AllChapters(chapter_order, abstractions, upto - 1)
             name == abstractions[chapter_order[upto] + 1].name.s
         IN  IF ValidPosition(chapter_order, abstractions, upto)
             THEN Append(before,
                         IntStr(upto) \o <<".", " ", "[">> \o name \o <<"]", "(">>
                         \o ChapterFilename(upto - 1, name) \o <<")">>)
             ELSE before

NoChapter == [num |-> 0]

\* items_to_process: one item per valid position, in order
RECURSIVE ItemsToProcess(_, _, _, _, _)
ItemsToProcess(chapter_order, abstractions, files_data, project_name, upto) ==
    IF upto = 0 THEN <<>>
    ELSE LET before == ItemsToProcess(chapter_order, abstractions, files_data,
                                      project_name, upto - 1)
             names == ChapterFilenames(chapter_order, abstractions, Len(chapter_order))
             details == abstractions[chapter_order[upto] + 1]
         IN  IF ValidPosition(chapter_order, abstractions, upto)
             THEN Append(before,
                    [chapter_num |-> upto,
                     abstraction_index |-> chapter_order[upto],
                     abstraction_details |-> details,
                     related_files_content_map |->
                         get_content_for_indices(files_data, details.files),
                     project_name |-> project_name,
                     full_chapter_listing |->
                         Join(<<"\n">>, AllChapters(chapter_order, abstractions,
                                                    Len(chapter_order))),
                     chapter_filenames |-> names,
                     prev_chapter |-> IF upto > 1 THEN names[chapter_order[upto - 1]]
                                      ELSE NoChapter,
                     next_chapter |-> IF upto < Len(chapter_order)
                                      THEN names[chapter_order[upto + 1]]
                                      ELSE NoChapter])
             ELSE before

\* WriteChapters.prep: iterating a name that is not a str raises TypeError; the
\* lookup chapter_filenames[prev_idx] of a skipped neighbour raises KeyError
WritePrep(chapter_order, abstractions, files_data, project_name) ==
    LET n == Len(chapter_order)
        valid == {i \in 1..n : ValidPosition(chapter_order, abstractions, i)}
    IN  IF \E i \in valid : abstractions[chapter_order[i] + 1].name.t # "str"
        THEN Fail(Raise("TypeError", "object is not iterable", "chapter_name", "none"))
        ELSE IF \E i \in valid : \/ i > 1 /\ (i - 1) \notin valid
                                 \/ i < n /\ (i + 1) \notin valid
        THEN Fail(Raise("KeyError", "chapter_filenames", "neighbour", "none"))
        ELSE Ok(ItemsToProcess(chapter_order, abstractions, files_data,
                               project_name, n))

\* a summary that leaves out the chapter written last
EarlierChaptersSummary(chapters_written_so_far) ==
    Join(<<"\n", "-", "-", "-", "\n">>,
         SubSeq(chapters_written_so_far, 1, Len(chapters_written_so_far) - 1))

\* previous_chapters_summary = "\n---\n".join(self.chapters_written_so_far)
PreviousChaptersSummary(chapters_written_so_far) ==
    Join(<<"\n", "-", "-", "-", "\n">>, chapters_written_so_far)

\* the parts of the prompt of WriteChapters.exec that vary
ChapterPrompt(item, chapters_written_so_far) ==
    LET summary == PreviousChaptersSummary(chapters_written_so_far)
    IN  [project_name |-> item.project_name,
         abstraction_name |-> item.abstraction_details.name.s,
         abstraction_index |-> item.abstraction_index,
         chapter_num |-> item.chapter_num,
         description |-> item.abstraction_details.description,
         full_chapter_listing |-> item.full_chapter_listing,
         previous_chapters |-> IF summary # <<>> THEN summary
                               ELSE <<"This is the first chapter.">>,
         snippets |-> item.related_files_content_map]

\* actual_heading = f"# Chapter {chapter_num}: {abstraction_name}"
ActualHeading(chapter_num, abstraction_name) ==
    <<"#", " ", "Chapter", " ">> \o IntStr(chapter_num) \o <<":", " ">>
    \o abstraction_name

\* "Basic validation/cleanup" of the chapter the LLM returned
NormalizeChapter(chapter_content, chapter_num, abstraction_name) ==
    LET actual_heading == ActualHeading(chapter_num, abstraction_name)
        stripped == Strip(chapter_content)
        lines == Split(stripped, "\n")
    IN  IF StartsWith(stripped, <<"#", " ", "Chapter", " ">> \o IntStr(chapter_num))
        THEN chapter_content
        ELSE IF StartsWith(Strip(lines[1]), <<"#">>)
        THEN Join(<<"\n">>, <<actual_heading>> \o Tail(lines))
        ELSE actual_heading \o <<"\n", "\n">> \o chapter_content

---------------------------------------------------------------------------
(* CombineTutorial *)

\* max_label_len
max_label_len == 30

Attribution ==
    <<"Generated by [AI Codebase Knowledge Builder](https://github.com/The-Pocket/Tutorial-Codebase-Knowledge)">>

\* a node line whose id counts the abstractions from 1
MermaidNodeFromOne(i, abstr) ==
    <<"    ", "A">> \o IntStr(i + 1) \o <<"[", "\"">>
    \o Replace(abstr.name.s, "\"", <<>>) \o <<"\"", "]">>

\* f'    {node_id}["{node_label}"]' for the abstraction at 0-based index i
MermaidNode(i, abstr) ==
    <<"    ", "A">> \o IntStr(i) \o <<"[", "\"">>
    \o Replace(abstr.name.s, "\"", <<>>) \o <<"\"", "]">>

\* a label cut to max_label_len characters before the dots are added
EdgeLabelCutLate(label) ==
    LET edge_label == Replace(Replace(label, "\"", <<>>), "\n", <<" ">>)
    IN  IF Len(edge_label) > max_label_len
        THEN SubSeq(edge_label, 1, max_label_len) \o <<".", ".", ".">>
        ELSE edge_label

\* the sanitized and shortened edge label
EdgeLabel(label) ==
    LET edge_label == Replace(Replace(label, "\"", <<>>), "\n", <<" ">>)
    IN  IF Len(edge_label) > max_label_len
        THEN SubSeq(edge_label, 1, max_label_len - 3) \o <<".", ".", ".">>
        ELSE edge_label

\* f'    {from_node_id} -- "{edge_label}" --> {to_node_id}'
MermaidEdge(rel) ==
    <<"    ", "A">> \o IntStr(rel.from) \o <<" -- ", "\"">> \o EdgeLabel(rel.label)
    \o <<"\"", " --> ", "A">> \o IntStr(rel.to)

\* mermaid_lines
MermaidLines(abstractions, details) ==
    <<<<"flowchart TD">>>>
    \o [i \in 1..Len(abstractions) |-> MermaidNode(i - 1, abstractions[i])]
    \o [i \in 1..Len(details) |-> MermaidEdge(details[i])]

\* a guard that wants a chapter for every position of the order
HasEveryChapter(chapter_order, abstractions, chapters_content, i) ==
    /\ 0 <= chapter_order[i] /\ chapter_order[i] < Len(abstractions)
    /\ Len(chapters_content) = Len(chapter_order)

\* the guard of the loop over chapter_order in CombineTutorial.prep
HasChapter(chapter_order, abstractions, chapters_content, i) ==
    /\ 0 <= chapter_order[i] /\ chapter_order[i] < Len(abstractions)
    /\ i - 1 < Len(chapters_content)

\* the chapter text with the attribution footer
WithAttribution(chapter_content) ==
    (IF EndsWith(chapter_content, <<"\n", "\n">>) THEN chapter_content
     ELSE chapter_content \o <<"\n", "\n">>)
    \o <<"-", "-", "-", "\n", "\n">> \o Attribution

\* chapter_files: {"filename", "content"} per position that has a chapter
RECURSIVE ChapterFiles(_, _, _, _)
ChapterFiles(chapter_order, abstractions, chapters_content, upto) ==
    IF upto = 0 THEN <<>>
    ELSE LET before == ChapterFiles(chapter_order, abstractions, chapters_content,
                                    upto - 1)
         IN  IF HasChapter(chapter_order, abstractions, chapters_content, upto)
             THEN Append(before,
                    [filename |-> ChapterFilename(upto - 1,
                                     abstractions[chapter_order[upto] + 1].name.s),
                     content |-> WithAttribution(chapters_content[upto])])
             ELSE before

\* the lines f"{i+1}. [{abstraction_name}]({filename})\n" added to index_content
RECURSIVE ChapterLinks(_, _, _, _)
ChapterLinks(chapter_order, abstractions, chapters_content, upto) ==
    IF upto = 0 THEN <<>>
    ELSE LET before == ChapterLinks(chapter_order, abstractions, chapters_content,
                                    upto - 1)
             name == abstractions[chapter_order[upto] + 1].name.s
         IN  IF HasChapter(chapter_order, abstractions, chapters_content, upto)
             THEN before \o IntStr(upto) \o <<".", " ", "[">> \o name \o <<"]", "(">>
                  \o ChapterFilename(upto - 1, name) \o <<")", "\n">>
             ELSE before

\* index_content
IndexContent(project_name, repo_url, relationships_data, chapter_order, abstractions, chapters_content) ==
    <<"# Tutorial: ">> \o project_name \o <<"\n", "\n">>
    \o relationships_data.summary \o <<"\n", "\n">>
    \o <<"**Source Repository:** ", "[">> \o repo_url \o <<"]", "(">> \o repo_url
    \o <<")", "\n", "\n">>
    \o <<"fence_mermaid", "\n">>
    \o Join(<<"\n">>, MermaidLines(abstractions, relationships_data.details))
    \o <<"\n", "fence", "\n", "\n">>
    \o <<"## Chapters", "\n", "\n">>
    \o ChapterLinks(chapter_order, abstractions, chapters_content, Len(chapter_order))
    \o <<"\n", "\n", "-", "-", "-", "\n", "\n">> \o Attribution

\* CombineTutorial.prep: shared["repo_url"] raises KeyError when the key is
\* missing; name.replace raises AttributeError for a name that is not a str
CombinePrep(sh) ==
    IF "repo_url" \notin DOMAIN sh
    THEN Fail(Raise("KeyError", "repo_url", "shared", "none"))
    ELSE IF \E i \in 1..Len(sh["abstractions"]) : sh["abstractions"][i].name.t # "str"
    THEN Fail(Raise("AttributeError", "object has no attribute replace", "name", "none"))
    ELSE Ok([output_path |->
                 [dir |-> IF "output_dir" \in DOMAIN sh THEN sh["output_dir"]
                          ELSE <<"output">>,
                  name |-> sh["project_name"]],
             index_content |->
                 IndexContent(sh["project_name"], sh["repo_url"], sh["relationships"],
                              sh["chapter_order"], sh["abstractions"], sh["chapters"]),
             chapter_files |->
                 ChapterFiles(sh["chapter_order"], sh["abstractions"], sh["chapters"],
                              Len(sh["chapter_order"]))])

\* the writes of CombineTutorial.exec in order: index.md, then the chapters
CombineWrites(res) ==
    <<[path |-> <<"index.md">>, content |-> res.index_content]>>
    \o [i \in 1..Len(res.chapter_files) |->
          [path |-> res.chapter_files[i].filename,
           content |-> res.chapter_files[i].content]]

---------------------------------------------------------------------------
(* FetchRepo *)

\* d[k] = v of a dict
Put(d, k, v) == [x \in DOMAIN d \cup {k} |-> IF x = k THEN v ELSE d[x]]

\* parts[-1]
Last(parts) == parts[Len(parts)]

\* a prep that derives the project name even when one was given
FetchPrepDerivesAlways(sh) ==
    IF "repo_url" \in DOMAIN sh
    THEN Put(sh, "project_name",
             Replace(Last(Split(sh["repo_url"], "/")), ".git", <<>>))
    ELSE Put(sh, "project_name", Last(Split(sh["local_dir"], "/")))

\* FetchRepo.prep: the shared dictionary after the project name is derived from
\* the URL or the directory when none (or an empty one) was given
FetchPrep(sh) ==
    IF "project_name" \in DOMAIN sh /\ sh["project_name"] # <<>> THEN sh
    ELSE IF "repo_url" \in DOMAIN sh
    THEN Put(sh, "project_name",
             Replace(Last(Split(sh["repo_url"], "/")), ".git", <<>>))
    ELSE Put(sh, "project_name", Last(Split(sh["local_dir"], "/")))

---------------------------------------------------------------------------
(* Inputs: what the crawl and the LLM may return *)

\* all sequences over S of length at most n
SeqsUpTo(S, n) == UNION {[1..m -> S] : m \in 0..n}

\* the i-th file the crawl finds
FileRecord(i) == [path |-> <<"f">> \o IntStr(i), content |-> <<"c">> \o IntStr(i)]

\* the lists of (path, content) the crawl may return
FileLists == {[i \in 1..k |-> FileRecord(i)] : k \in 0..MaxFiles}

\* the shared dictionary main builds for a repository URL, no project name given
RepoShared ==
    [include_patterns |-> "include", exclude_patterns |-> "exclude",
     max_file_size |-> "size", repo_url |-> <<"h", "/", "R", ".git">>]

\* the shared dictionary main builds for a local directory: it holds no
\* repo_url key
DirShared ==
    [include_patterns |-> "include", exclude_patterns |-> "exclude",
     max_file_size |-> "size", local_dir |-> <<"d", "/", "L">>]

\* the shared dictionaries main hands to the flow: a repository URL or a local
\* directory, with or without a project name
InitialShared ==
    {RepoShared, DirShared,
     Put(RepoShared, "project_name", <<"P">>),
     Put(DirShared, "project_name", <<"P">>)}

Description == YStr(<<"d">>)

\* one abstraction item of an IdentifyAbstractions response
AbstractionItem(name, file_indices) ==
    YDict([name |-> name, description |-> Description,
           file_indices |-> YList(file_indices)])

\* one relationship item of an AnalyzeRelationships response
RelationshipItem(from, to, label) ==
    YDict([from_abstraction |-> from, to_abstraction |-> to, label |-> YStr(label)])

\* the parsed data of an AnalyzeRelationships response
RelationshipsDoc(rels) ==
    YDict([summary |-> YStr(<<"s">>), relationships |-> YList(rels)])

\* index entries as the LLM may write them: ints in and out of range, a bool,
\* strings with and without a comment, and entries that are no int at all
IndexTokens ==
    {YInt(i) : i \in (0 - 1)..MaxAbs}
    \cup {YBool(TRUE), YFloat(1, 0), YNull,
          YStr(<<"1">>), YStr(<<" ", "0", " ">>), YStr(<<"0", " ", "#", " ", "a">>),
          YStr(<<"#", " ", "1">>), YStr(<<"x">>), YStr(<<"2", "#">>)}

\* responses whose block does not load to the expected type, or have no block
MalformedResponses ==
    {<<PYaml(YList(<<YInt(0)>>))>>, Fenced(YNull), <<POpen, PText, PFence>>,
     <<PText, POpen, PFence>>}

\* OrderChapters responses of the stage specification: every list of entries
OrderResponses ==
    {Fenced(YList(l)) : l \in SeqsUpTo(IndexTokens, MaxOrder)}
    \cup MalformedResponses \cup {Fenced(RelationshipsDoc(<<>>))}

PlainItems ==
    {AbstractionItem(YStr(<<"X">>), <<YInt(0)>>), AbstractionItem(YStr(<<"Y">>), <<>>)}

\* IdentifyAbstractions responses of the stage specification: plain items
\* followed by one item with any list of index entries
IdentifyResponses ==
    {Fenced(YList(pre \o <<AbstractionItem(YStr(<<"A">>), l)>>)) :
        pre \in SeqsUpTo(PlainItems, MaxAbs - 1), l \in SeqsUpTo(IndexTokens, MaxIdx)}
    \cup MalformedResponses
    \cup {Fenced(YList(<<YInt(1)>>)),
          Fenced(YList(<<YDict([name |-> YStr(<<"X">>), description |-> Description])>>)),
          Fenced(YList(<<YDict([name |-> YStr(<<"X">>), description |-> YNull,
                                file_indices |-> YList(<<>>)])>>)),
          Fenced(YList(<<YDict([name |-> YStr(<<"X">>), description |-> Description,
                                file_indices |-> YInt(0)])>>))}

\* the i-th abstraction item of the pipeline's IdentifyAbstractions responses
FlowItemAt(i) ==
    CASE i % 3 = 1 -> AbstractionItem(YStr(<<"X">>), <<YInt(0)>>)
      [] i % 3 = 2 -> AbstractionItem(YStr(<<"Y", "\"", "y">>),
                                      <<YStr(<<"1", " ", "#", " ", "b">>), YInt(0), YInt(0)>>)
      [] OTHER -> AbstractionItem(YStr(<<"x">>), <<>>)

\* the pipeline's IdentifyAbstractions responses: lists of every length, a name
\* with a line break in it, a name that is no string, an entry that is no
\* index, a response without the fence, a block that is no list
FlowIdentifyResponses ==
    {Fenced(YList([i \in 1..k |-> FlowItemAt(i)])) : k \in 0..MaxAbs}
    \cup {Fenced(YList(<<AbstractionItem(YStr(<<"a", "\n", "B">>), <<>>)>>)),
          Fenced(YList(<<AbstractionItem(YInt(7), <<>>)>>)),
          Fenced(YList(<<AbstractionItem(YStr(<<"X">>), <<YStr(<<"x">>)>>)>>)),
          <<PYaml(YList(<<>>))>>,
          Fenced(YNull)}

\* the j-th relationship item of the pipeline's AnalyzeRelationships responses
FlowRelationshipAt(j) ==
    CASE j = 1 -> RelationshipItem(YInt(0), YInt(0), <<"x">>)
      [] j = 2 -> RelationshipItem(YInt(0), YStr(<<"1", " ", "#", " ", "Y">>),
                                   <<"u", "s", "e", "s">>)
      [] OTHER -> RelationshipItem(YStr(IntStr(j - 2)), YInt(0), <<"\"", "a", "\n", "b">>)

FlowAnalyzeResponses ==
    {Fenced(RelationshipsDoc([j \in 1..k |-> FlowRelationshipAt(j)])) : k \in 0..MaxRel}
    \cup {Fenced(RelationshipsDoc(<<RelationshipItem(YStr(<<"x">>), YInt(0), <<"x">>)>>)),
          <<PYaml(RelationshipsDoc(<<>>))>>,
          Fenced(YList(<<>>))}

FlowOrderResponses ==
    {Fenced(YList(l)) : l \in SeqsUpTo({YInt(i) : i \in 0..(MaxAbs - 1)}, MaxAbs)}
    \cup {Fenced(YList(<<YStr(<<"1", " ", "#", " ", "Y">>), YInt(0)>>)),
          Fenced(YList(<<YInt(0), YStr(<<"x">>)>>)),
          <<PYaml(YList(<<>>))>>,
          Fenced(YNull)}

\* a chapter the LLM may return for one item: with the heading asked for,
\* with another heading, with none; with the number asked for and another
\* name, with a number that starts with the digits asked for, with the heading
\* after a space, with no text at all
ChapterResponse(kind, item) ==
    CASE kind = "expected" ->
            ActualHeading(item.chapter_num, item.abstraction_details.name.s)
            \o <<"\n", "\n", "t", "\n">>
      [] kind = "other_heading" -> <<"#", " ", "T", "\n", "t">>
      [] kind = "no_heading" -> <<"t">>
      [] kind = "other_name" ->
            <<"#", " ", "Chapter", " ">> \o IntStr(item.chapter_num)
            \o <<":", " ", "W", "\n", "t">>
      [] kind = "longer_number" ->
            <<"#", " ", "Chapter", " ">> \o IntStr(item.chapter_num) \o <<"0", ":", " ">>
            \o item.abstraction_details.name.s \o <<"\n", "t">>
      [] kind = "indented" ->
            <<" ">> \o ActualHeading(item.chapter_num, item.abstraction_details.name.s)
            \o <<"\n", "t">>
      [] OTHER -> <<>>

\* the kinds of chapter the pipeline's LLM returns
FlowChapterKinds == {"expected", "other_heading", "no_heading"}

\* every kind of chapter
AllChapterKinds ==
    FlowChapterKinds \cup {"other_name", "longer_number", "indented", "empty"}

\* the chapters the pipeline's LLM may return for one item
ChapterResponses(item) == {ChapterResponse(kind, item) : kind \in FlowChapterKinds}

LLMError == Raise("LLMError", "call_llm raised", "none", "none")

---------------------------------------------------------------------------
(* The flow: one action per node, or per node method where the framework    *)
(* calls exec once per item (WriteChapters) or the claims tell prep from    *)
(* exec (CombineTutorial).  An exception leaves the flow: error is set, pc  *)
(* stays at the method that raised, and nothing runs afterwards.            *)

\* a flow that goes on after a node has raised
RunningDespiteError(at) == pc = at

\* the flow runs the node of position at: no node before it has raised
Running(at) == pc = at /\ error = NoError

Init ==
    /\ shared \in InitialShared
    /\ pc = "FetchRepo"
    /\ error = NoError
    /\ writer = <<>>
    /\ prep_res = <<>>
    /\ exec_res_list = <<>>
    /\ response = <<>>
    /\ llm_calls = <<>>
    /\ disk = <<>>

\* FetchRepo.prep, exec and post
FetchRepo ==
    /\ Running("FetchRepo")
    /\ \/ \E files_list \in FileLists :
            /\ shared' = Put(FetchPrep(shared), "files", files_list)
            /\ pc' = "IdentifyAbstractions"
            /\ UNCHANGED error
       \/ /\ shared' = FetchPrep(shared)
          /\ error' = Raise("ValueError", "Directory does not exist", "crawl", "none")
          /\ UNCHANGED pc
    /\ UNCHANGED <<writer, prep_res, exec_res_list, response, llm_calls, disk>>

\* IdentifyAbstractions.prep, exec and post
IdentifyAbstractions(Responses) ==
    /\ Running("IdentifyAbstractions")
    /\ \/ \E r \in Responses :
            LET exec_res == IdentifyExec(r, Len(shared["files"]))
            IN  /\ response' = r
                /\ IF exec_res.ok
                   THEN /\ shared' = Put(shared, "abstractions", exec_res.v)
                        /\ pc' = "AnalyzeRelationships"
                        /\ UNCHANGED error
                   ELSE /\ error' = exec_res.err
                        /\ UNCHANGED <<shared, pc>>
       \/ /\ error' = LLMError
          /\ response' = <<>>
          /\ UNCHANGED <<shared, pc>>
    /\ UNCHANGED <<writer, prep_res, exec_res_list, llm_calls, disk>>

\* AnalyzeRelationships.prep, exec and post
AnalyzeRelationships(Responses) ==
    /\ Running("AnalyzeRelationships")
    /\ \/ \E r \in Responses :
            LET exec_res == AnalyzeExec(r, AbstractionListing(shared["abstractions"]))
            IN  /\ response' = r
                /\ IF exec_res.ok
                   THEN /\ shared' = Put(shared, "relationships", exec_res.v)
                        /\ pc' = "OrderChapters"
                        /\ UNCHANGED error
                   ELSE /\ error' = exec_res.err
                        /\ UNCHANGED <<shared, pc>>
       \/ /\ error' = LLMError
          /\ response' = <<>>
          /\ UNCHANGED <<shared, pc>>
    /\ UNCHANGED <<writer, prep_res, exec_res_list, llm_calls, disk>>

\* OrderChapters.prep, exec and post
OrderChapters(Responses) ==
    /\ Running("OrderChapters")
    /\ LET p == OrderPrep(shared["abstractions"], shared["relationships"])
       IN  IF ~p.ok
           THEN /\ error' = p.err
                /\ response' = <<>>
                /\ UNCHANGED <<shared, pc>>
           ELSE \/ \E r \in Responses :
                     LET exec_res == OrderExec(r, p.v)
                     IN  /\ response' = r
                         /\ IF exec_res.ok
                            THEN /\ shared' = Put(shared, "chapter_order", exec_res.v)
                                 /\ pc' = "WriteChapters.prep"
                                 /\ UNCHANGED error
                            ELSE /\ error' = exec_res.err
                                 /\ UNCHANGED <<shared, pc>>
                \/ /\ error' = LLMError
                   /\ response' = <<>>
                   /\ UNCHANGED <<shared, pc>>
    /\ UNCHANGED <<writer, prep_res, exec_res_list, llm_calls, disk>>

\* WriteChapters.prep
WriteChapters_prep ==
    /\ Running("WriteChapters.prep")
    /\ writer' = [chapters_written_so_far |-> <<>>]
    /\ LET p == WritePrep(shared["chapter_order"], shared["abstractions"],
                          shared["files"], shared["project_name"])
       IN  IF p.ok
           THEN /\ prep_res' = p.v
                /\ pc' = IF p.v = <<>> THEN "WriteChapters.post" ELSE "WriteChapters.exec"
                /\ UNCHANGED error
           ELSE /\ error' = p.err
                /\ UNCHANGED <<prep_res, pc>>
    /\ response' = <<>>
    /\ UNCHANGED <<shared, exec_res_list, llm_calls, disk>>

\* WriteChapters.exec for the next item of the batch
WriteChapters_exec(Kinds) ==
    /\ Running("WriteChapters.exec")
    /\ LET item == prep_res[Len(exec_res_list) + 1]
           so_far == writer["chapters_written_so_far"]
       IN  /\ llm_calls' = Append(llm_calls, ChapterPrompt(item, so_far))
           /\ \/ \E r \in {ChapterResponse(kind, item) : kind \in Kinds} :
                    LET chapter_content ==
                            NormalizeChapter(r, item.chapter_num,
                                             item.abstraction_details.name.s)
                    IN  /\ response' = r
                        /\ writer' = [chapters_written_so_far |->
                                          Append(so_far, chapter_content)]
                        /\ exec_res_list' = Append(exec_res_list, chapter_content)
                        /\ pc' = IF Len(exec_res_list) + 1 = Len(prep_res)
                                 THEN "WriteChapters.post" ELSE "WriteChapters.exec"
                        /\ UNCHANGED error
              \/ /\ error' = LLMError
                 /\ response' = <<>>
                 /\ UNCHANGED <<writer, exec_res_list, pc>>
    /\ UNCHANGED <<shared, prep_res, disk>>

\* WriteChapters.post
WriteChapters_post ==
    /\ Running("WriteChapters.post")
    /\ shared' = Put(shared, "chapters", exec_res_list)
    /\ writer' = <<>>
    /\ pc' = "CombineTutorial.prep"
    /\ UNCHANGED <<error, prep_res, exec_res_list, response, llm_calls, disk>>

\* CombineTutorial.prep
CombineTutorial_prep ==
    /\ Running("CombineTutorial.prep")
    /\ LET p == CombinePrep(shared)
       IN  IF p.ok
           THEN /\ prep_res' = p.v
                /\ pc' = "CombineTutorial.exec"
                /\ UNCHANGED error
           ELSE /\ error' = p.err
                /\ UNCHANGED <<prep_res, pc>>
    /\ UNCHANGED <<shared, writer, exec_res_list, response, llm_calls, disk>>

\* CombineTutorial.exec: every write, or the writes up to the one that raises
CombineTutorial_exec ==
    /\ Running("CombineTutorial.exec")
    /\ LET writes == CombineWrites(prep_res)
       IN  \/ /\ disk' = disk \o writes
              /\ pc' = "CombineTutorial.post"
              /\ UNCHANGED error
           \/ \E k \in 0..(Len(writes) - 1) :
                /\ disk' = disk \o SubSeq(writes, 1, k)
                /\ error' = Raise("OSError", "write failed", "open", "none")
                /\ UNCHANGED pc
    /\ UNCHANGED <<shared, writer, prep_res, exec_res_list, response, llm_calls>>

\* CombineTutorial.post
CombineTutorial_post ==
    /\ Running("CombineTutorial.post")
    /\ shared' = Put(shared, "final_output_dir", prep_res.output_path)
    /\ pc' = "done"
    /\ UNCHANGED <<error, writer, prep_res, exec_res_list, response, llm_calls, disk>>

Next ==
    \/ FetchRepo
    \/ IdentifyAbstractions(FlowIdentifyResponses)
    \/ AnalyzeRelationships(FlowAnalyzeResponses)
    \/ OrderChapters(FlowOrderResponses)
    \/ WriteChapters_prep
    \/ WriteChapters_exec(FlowChapterKinds)
    \/ WriteChapters_post
    \/ CombineTutorial_prep
    \/ CombineTutorial_exec
    \/ CombineTutorial_post

Spec == Init /\ [][Next]_vars

---------------------------------------------------------------------------
(* One stage alone, on every response of its response set *)

\* the shared dictionary when IdentifyAbstractions starts
InitIdentify ==
    /\ \E files_list \in FileLists :
          shared = Put(FetchPrep(RepoShared), "files", files_list)
    /\ pc = "IdentifyAbstractions"
    /\ error = NoError
    /\ writer = <<>>
    /\ prep_res = <<>>
    /\ exec_res_list = <<>>
    /\ response = <<>>
    /\ llm_calls = <<>>
    /\ disk = <<>>

NextIdentify == IdentifyAbstractions(IdentifyResponses)

SpecIdentify == InitIdentify /\ [][NextIdentify]_vars

\* the abstractions IdentifyAbstractions stored, n of them
StoredAbstractions(n) ==
    [i \in 1..n |-> [name |-> YStr(<<"X">> \o IntStr(i)), description |-> Description,
                     files |-> <<>>]]

\* the shared dictionary when OrderChapters starts, for every abstraction count
InitOrder ==
    /\ \E n \in 0..MaxAbs :
          shared = Put(Put(Put(FetchPrep(RepoShared), "files", <<>>),
                           "abstractions", StoredAbstractions(n)),
                       "relationships", [summary |-> <<"s">>, details |-> <<>>])
    /\ pc = "OrderChapters"
    /\ error = NoError
    /\ writer = <<>>
    /\ prep_res = <<>>
    /\ exec_res_list = <<>>
    /\ response = <<>>
    /\ llm_calls = <<>>
    /\ disk = <<>>

NextOrder == OrderChapters(OrderResponses)

SpecOrder == InitOrder /\ [][NextOrder]_vars

---------------------------------------------------------------------------
(* OrderChapters: properties of the stage, under SpecOrder *)

\* OrderChapters has run on a response the LLM returned
OrderActed ==
    /\ response # <<>>
    /\ \/ pc = "WriteChapters.prep" /\ error = NoError
       \/ pc = "OrderChapters" /\ error # NoError

\* the entries of the response's list, none when the block is no list
ResponseEntries ==
    IF LoadResponse(response).ok /\ LoadResponse(response).v.t = "list"
    THEN LoadResponse(response).v.items
    ELSE <<YNull>>

\* every entry of e denotes an integer
AllParse(e) == \A i \in 1..Len(e) : FlexibleIndex(e[i]).ok

\* the integers the entries of e denote
Indices(e) == [i \in 1..Len(e) |-> FlexibleIndex(e[i]).v]

IsPermutation(seq, n) ==
    /\ Len(seq) = n
    /\ \A v \in 0..(n - 1) : \E i \in 1..n : seq[i] = v

\* the entries before position k were all accepted: integers of 0..n-1, each
\* seen for the first time
AcceptedBefore(e, k, n) ==
    \A j \in 1..(k - 1) :
        /\ FlexibleIndex(e[j]).ok
        /\ FlexibleIndex(e[j]).v \in 0..(n - 1)
        /\ \A h \in 1..(j - 1) : FlexibleIndex(e[h]).v # FlexibleIndex(e[j]).v

\* position k of e repeats an in-range index, every earlier entry accepted
DuplicateAt(e, k, n) ==
    /\ AcceptedBefore(e, k, n)
    /\ FlexibleIndex(e[k]).ok
    /\ FlexibleIndex(e[k]).v \in 0..(n - 1)
    /\ \E j \in 1..(k - 1) : FlexibleIndex(e[j]).v = FlexibleIndex(e[k]).v

\* C1: once OrderChapters has run on a response, either the entries of the
\* response denote a permutation of 0..n-1 (n the number of abstractions) and
\* the stage stored exactly that sequence as chapter_order, which holds every
\* index of 0..n-1 once; or the stage failed and stored no chapter_order. A
\* list with a repeated or a missing index is never stored, repaired or not.
C1_PermutationOrFailure ==
    OrderActed =>
        IF /\ AllParse(ResponseEntries)
           /\ LoadResponse(response).ok
           /\ LoadResponse(response).v.t = "list"
           /\ IsPermutation(Indices(ResponseEntries), Len(shared["abstractions"]))
        THEN /\ error = NoError
             /\ pc = "WriteChapters.prep"
             /\ shared["chapter_order"] = Indices(ResponseEntries)
             /\ \A v \in 0..(Len(shared["abstractions"]) - 1) :
                   Cardinality({i \in 1..Len(shared["chapter_order"]) :
                                   shared["chapter_order"][i] = v}) = 1
        ELSE /\ error # NoError
             /\ pc = "OrderChapters"
             /\ "chapter_order" \notin DOMAIN shared

\* a permutation other than the identity was stored, read from entries that
\* are not all plain ints
C1_Witness ==
    /\ OrderActed
    /\ error = NoError
    /\ Len(shared["abstractions"]) = MaxAbs
    /\ shared["chapter_order"][1] # 0
    /\ \E i \in 1..Len(ResponseEntries) : ResponseEntries[i].t = "str"

\* C2: when an entry repeats an in-range index, every earlier entry having
\* been accepted, OrderChapters fails with the duplicate failure, which names
\* the repeated index and is none of the parse, range and length failures.
C2_DuplicateError ==
    OrderActed =>
        \A k \in 1..Len(ResponseEntries) :
            DuplicateAt(ResponseEntries, k, Len(shared["abstractions"])) =>
                /\ error.exc = "ValueError"
                /\ error.msg = "Duplicate index found in ordered list"
                /\ error.arg = [idx |-> FlexibleIndex(ResponseEntries[k]).v]

\* the response [0, 0, 1] for two abstractions has been rejected
C2_Witness ==
    /\ OrderActed
    /\ Len(shared["abstractions"]) = 2
    /\ response = Fenced(YList(<<YInt(0), YInt(0), YInt(1)>>))
    /\ error # NoError

\* C4: when every entry of the response is an integer of 0..n-1 seen once and
\* the list is shorter than n, OrderChapters fails with the length failure,
\* and the missing indices it names are 0..n-1 minus the indices of the
\* response; no chapter_order is stored.
C4_CompletenessError ==
    (/\ OrderActed
     /\ LoadResponse(response).ok
     /\ LoadResponse(response).v.t = "list"
     /\ AcceptedBefore(ResponseEntries, Len(ResponseEntries) + 1,
                       Len(shared["abstractions"]))
     /\ Len(ResponseEntries) < Len(shared["abstractions"]))
    => /\ error.exc = "ValueError"
       /\ error.msg = "Ordered list length does not match number of abstractions"
       /\ error.arg.missing =
              (0..(Len(shared["abstractions"]) - 1))
                  \ {FlexibleIndex(ResponseEntries[i]).v : i \in 1..Len(ResponseEntries)}
       /\ "chapter_order" \notin DOMAIN shared

\* the response [0] for two abstractions failed, naming index 1 as missing
C4_Witness ==
    /\ OrderActed
    /\ Len(shared["abstractions"]) = 2
    /\ response = Fenced(YList(<<YInt(0)>>))
    /\ error.msg = "Ordered list length does not match number of abstractions"
    /\ error.arg.missing = {1}

---------------------------------------------------------------------------
(* IdentifyAbstractions and AnalyzeRelationships: properties of the stages *)

\* IdentifyAbstractions has run on a response the LLM returned
IdentifyActed ==
    /\ response # <<>>
    /\ \/ pc = "AnalyzeRelationships" /\ error = NoError
       \/ pc = "IdentifyAbstractions" /\ error # NoError

\* AnalyzeRelationships has run on a response the LLM returned
AnalyzeActed ==
    /\ response # <<>>
    /\ \/ pc = "OrderChapters" /\ error = NoError
       \/ pc = "AnalyzeRelationships" /\ error # NoError

\* the items of the response's list, none when the block is no list
ResponseItems ==
    IF LoadResponse(response).ok /\ LoadResponse(response).v.t = "list"
    THEN LoadResponse(response).v.items
    ELSE <<>>

\* item has the three keys, a str description and a list of file_indices
WellFormedItem(item) ==
    /\ item.t = "dict"
    /\ {"name", "description", "file_indices"} \subseteq DOMAIN item.m
    /\ item.m["description"].t = "str"
    /\ item.m["file_indices"].t = "list"

\* the entries before position k of e all denote integers of 0..count-1
InRangeBefore(e, k, count) ==
    \A h \in 1..(k - 1) :
        FlexibleIndex(e[h]).ok /\ FlexibleIndex(e[h]).v \in 0..(count - 1)

\* the first entry IdentifyAbstractions does not accept denotes an integer
\* outside 0..count-1: it is entry k of item i
FileIndexOutOfRange(items, i, k, count) ==
    /\ \A j \in 1..i : WellFormedItem(items[j])
    /\ \A j \in 1..(i - 1) :
          InRangeBefore(items[j].m["file_indices"].items,
                        Len(items[j].m["file_indices"].items) + 1, count)
    /\ InRangeBefore(items[i].m["file_indices"].items, k, count)
    /\ FlexibleIndex(items[i].m["file_indices"].items[k]).ok
    /\ FlexibleIndex(items[i].m["file_indices"].items[k]).v \notin 0..(count - 1)

\* the relationship items of the response, none when the data is malformed
ResponseRelationships ==
    IF /\ LoadResponse(response).ok
       /\ LoadResponse(response).v.t = "dict"
       /\ {"summary", "relationships"} \subseteq DOMAIN LoadResponse(response).v.m
       /\ LoadResponse(response).v.m["summary"].t = "str"
       /\ LoadResponse(response).v.m["relationships"].t = "list"
    THEN LoadResponse(response).v.m["relationships"].items
    ELSE <<>>

\* rel has the three keys, a str label, and both ends denote integers
ParsedRelationship(rel) ==
    /\ rel.t = "dict"
    /\ {"from_abstraction", "to_abstraction", "label"} \subseteq DOMAIN rel.m
    /\ rel.m["label"].t = "str"
    /\ RelationIndex(rel.m["from_abstraction"]).ok
    /\ RelationIndex(rel.m["to_abstraction"]).ok

\* both ends of a parsed relationship lie in 0..count-1
EndsInRange(rel, count) ==
    /\ RelationIndex(rel.m["from_abstraction"]).v \in 0..(count - 1)
    /\ RelationIndex(rel.m["to_abstraction"]).v \in 0..(count - 1)

\* the first relationship AnalyzeRelationships does not accept has integer ends,
\* one of them outside 0..count-1: it is relationship j
RelationOutOfRange(rels, j, count) ==
    /\ \A h \in 1..j : ParsedRelationship(rels[h])
    /\ \A h \in 1..(j - 1) : EndsInRange(rels[h], count)
    /\ ~EndsInRange(rels[j], count)

\* C3: a file index that denotes an integer outside 0..fileCount-1 makes
\* IdentifyAbstractions fail with the range failure, which names the index and
\* the bound; an end of a relationship that denotes an integer outside
\* 0..abstractionCount-1 makes AnalyzeRelationships fail with its range
\* failure. Neither is the failure of an entry that denotes no integer.
C3_RangeError ==
    /\ IdentifyActed =>
          \A i \in 1..Len(ResponseItems) :
              \A k \in 1..(IF WellFormedItem(ResponseItems[i])
                           THEN Len(ResponseItems[i].m["file_indices"].items)
                           ELSE 0) :
                  FileIndexOutOfRange(ResponseItems, i, k, Len(shared["files"])) =>
                      /\ error.exc = "ValueError"
                      /\ error.msg = "Invalid file index"
                      /\ error.arg.idx =
                             FlexibleIndex(ResponseItems[i].m["file_indices"].items[k]).v
                      /\ error.arg.max = Len(shared["files"]) - 1
    /\ AnalyzeActed =>
          \A j \in 1..Len(ResponseRelationships) :
              RelationOutOfRange(ResponseRelationships, j,
                                 Len(shared["abstractions"])) =>
                  /\ error.exc = "ValueError"
                  /\ error.msg = "Invalid index in relationship"
                  /\ error.arg.max = Len(shared["abstractions"]) - 1

\* an entry that denotes an integer out of range was rejected as an entry that
\* denotes no integer, the range failure kept only as the exception's context
C3_Witness ==
    /\ IdentifyActed
    /\ error.exc = "ValueError"
    /\ error.msg = "Could not parse index from entry"
    /\ error.context = "Invalid file index"

\* C5: once AnalyzeRelationships has succeeded, the stored relationships hold
\* one edge per relationship of the response, in the response's order, and
\* both ends of every edge are indices of stored abstractions, whatever their
\* number and their names.
C5_EdgesIndexAbstractions ==
    (AnalyzeActed /\ error = NoError) =>
        /\ Len(shared["relationships"].details) = Len(ResponseRelationships)
        /\ \A j \in 1..Len(ResponseRelationships) :
              /\ ParsedRelationship(ResponseRelationships[j])
              /\ shared["relationships"].details[j].from =
                     RelationIndex(ResponseRelationships[j].m["from_abstraction"]).v
              /\ shared["relationships"].details[j].to =
                     RelationIndex(ResponseRelationships[j].m["to_abstraction"]).v
              /\ shared["relationships"].details[j].from
                     \in 0..(Len(shared["abstractions"]) - 1)
              /\ shared["relationships"].details[j].to
                     \in 0..(Len(shared["abstractions"]) - 1)

\* an edge from 0 to 0 was stored for an empty list of abstractions, and
\* OrderChapters.prep then failed to look the abstraction up
C5_Witness ==
    /\ pc = "OrderChapters"
    /\ shared["abstractions"] = <<>>
    /\ Len(shared["relationships"].details) = 1
    /\ error.exc = "IndexError"

\* C6: once IdentifyAbstractions has succeeded, there is one stored abstraction
\* per item of the response, and the files of each are strictly ascending,
\* are exactly the integers the item's file_indices denote, and lie in
\* 0..fileCount-1.
C6_FilesSortedDistinct ==
    (IdentifyActed /\ error = NoError) =>
        /\ Len(shared["abstractions"]) = Len(ResponseItems)
        /\ \A i \in 1..Len(ResponseItems) :
              /\ WellFormedItem(ResponseItems[i])
              /\ AllParse(ResponseItems[i].m["file_indices"].items)
              /\ \A a, b \in 1..Len(shared["abstractions"][i].files) :
                    a < b => shared["abstractions"][i].files[a]
                                 < shared["abstractions"][i].files[b]
              /\ {shared["abstractions"][i].files[a] :
                     a \in 1..Len(shared["abstractions"][i].files)}
                 = {FlexibleIndex(ResponseItems[i].m["file_indices"].items[k]).v :
                       k \in 1..Len(ResponseItems[i].m["file_indices"].items)}
              /\ \A a \in 1..Len(shared["abstractions"][i].files) :
                    shared["abstractions"][i].files[a] \in 0..(Len(shared["files"]) - 1)

\* an item whose two entries, the first one a string, denote the same index
\* was stored with one file
C6_Witness ==
    /\ IdentifyActed
    /\ error = NoError
    /\ \E i \in 1..Len(ResponseItems) :
          /\ Len(ResponseItems[i].m["file_indices"].items) = 2
          /\ Len(shared["abstractions"][i].files) = 1
          /\ ResponseItems[i].m["file_indices"].items[1].t = "str"

---------------------------------------------------------------------------
(* WriteChapters: properties of the stage, under Spec *)

\* the chapters of a sequence joined as the prompt shows them
RECURSIVE JoinedChapters(_)
JoinedChapters(chapters) ==
    IF Len(chapters) = 1 THEN chapters[1]
    ELSE JoinedChapters(SubSeq(chapters, 1, Len(chapters) - 1))
         \o <<"\n", "-", "-", "-", "\n">> \o chapters[Len(chapters)]

\* the k-th prompt of the run is for position k and carries the chapters
\* produced for the positions before k, in order, and nothing else
CausalPrompts ==
    \A k \in 1..Len(llm_calls) :
        /\ llm_calls[k].chapter_num = k
        /\ llm_calls[k].abstraction_index = shared["chapter_order"][k]
        /\ llm_calls[k].previous_chapters =
               IF k = 1 THEN <<"This is the first chapter.">>
               ELSE JoinedChapters(SubSeq(exec_res_list, 1, k - 1))

\* an iteration that returns appends its normalized chapter to the accumulator
\* and changes nothing else of it; an iteration that raises leaves it alone
AccumulatorStep ==
    pc = "WriteChapters.exec" =>
        IF error' = NoError
        THEN /\ writer'["chapters_written_so_far"] =
                    Append(writer["chapters_written_so_far"],
                           NormalizeChapter(response', Len(exec_res_list) + 1,
                               prep_res[Len(exec_res_list) + 1].abstraction_details.name.s))
             /\ exec_res_list' = writer'["chapters_written_so_far"]
        ELSE writer' = writer /\ exec_res_list' = exec_res_list

\* C7: when WriteChapters generates the chapter of position i, the previous
\* chapters in its prompt are the normalized chapters of positions 0..i-1 in
\* that order, the first-chapter sentence when i = 0, and never hold the
\* chapter of position i or of a later one; every iteration appends exactly
\* its own chapter to the accumulator.
C7_CausalOrdering == [](CausalPrompts) /\ [][AccumulatorStep]_vars

\* the third chapter's prompt has been sent, after two chapters with
\* different texts
C7_Witness ==
    /\ Len(llm_calls) = 3
    /\ Len(exec_res_list) = 3
    /\ exec_res_list[1] # exec_res_list[2]
    /\ pc = "WriteChapters.post"

\* C8: once WriteChapters has stored its chapters, there are as many chapters
\* as entries of chapter_order, and the chapter at position i is the normalized
\* answer to the prompt sent for abstraction chapter_order[i] with chapter
\* number i+1.
C8_ChaptersAligned ==
    (pc = "CombineTutorial.prep" /\ "chapters" \in DOMAIN shared) =>
        /\ Len(shared["chapters"]) = Len(shared["chapter_order"])
        /\ Len(llm_calls) = Len(shared["chapter_order"])
        /\ \A i \in 1..Len(shared["chapter_order"]) :
              /\ llm_calls[i].abstraction_index = shared["chapter_order"][i]
              /\ llm_calls[i].abstraction_name =
                     shared["abstractions"][shared["chapter_order"][i] + 1].name.s
              /\ llm_calls[i].chapter_num = i
              /\ \E r \in ChapterResponses(prep_res[i]) :
                    shared["chapters"][i] =
                        NormalizeChapter(r, i, llm_calls[i].abstraction_name)
              /\ StartsWith(shared["chapters"][i],
                            <<"#", " ", "Chapter", " ">> \o IntStr(i))

\* three chapters were stored for an order that is not the identity
C8_Witness ==
    /\ pc = "CombineTutorial.prep"
    /\ "chapters" \in DOMAIN shared
    /\ Len(shared["chapters"]) = 3
    /\ shared["chapter_order"][1] # 0

---------------------------------------------------------------------------
(* The flow: properties of the shared dictionary and the disk, under Spec *)

\* the keys the posts of the nodes store
ResultKeys ==
    {"files", "abstractions", "relationships", "chapter_order", "chapters",
     "final_output_dir"}

\* the result keys of the nodes that completed before the node of position at
KeysBefore(at) ==
    CASE at = "FetchRepo" -> {}
      [] at = "IdentifyAbstractions" -> {"files"}
      [] at = "AnalyzeRelationships" -> {"files", "abstractions"}
      [] at = "OrderChapters" -> {"files", "abstractions", "relationships"}
      [] at \in {"WriteChapters.prep", "WriteChapters.exec", "WriteChapters.post"} ->
            {"files", "abstractions", "relationships", "chapter_order"}
      [] at \in {"CombineTutorial.prep", "CombineTutorial.exec",
                 "CombineTutorial.post"} -> ResultKeys \ {"final_output_dir"}
      [] OTHER -> ResultKeys

\* the result key the step taken at position at may store
OwnKeys(at) ==
    CASE at = "FetchRepo" -> {"files"}
      [] at = "IdentifyAbstractions" -> {"abstractions"}
      [] at = "AnalyzeRelationships" -> {"relationships"}
      [] at = "OrderChapters" -> {"chapter_order"}
      [] at = "WriteChapters.post" -> {"chapters"}
      [] at = "CombineTutorial.post" -> {"final_output_dir"}
      [] OTHER -> {}

\* after an abort the shared dictionary holds the results of the nodes before
\* the aborted one and no other; nothing is on disk unless the abort is in
\* CombineTutorial.exec; whatever is on disk was written from the complete
\* index and chapter documents CombineTutorial.prep built
HaltedState ==
    /\ error # NoError =>
          /\ DOMAIN shared \cap ResultKeys = KeysBefore(pc)
          /\ pc # "CombineTutorial.exec" => disk = <<>>
    /\ disk # <<>> =>
          /\ pc \in {"CombineTutorial.exec", "CombineTutorial.post", "done"}
          /\ CombinePrep(shared).ok
          /\ Len(disk) <= Len(CombineWrites(CombinePrep(shared).v))
          /\ disk = SubSeq(CombineWrites(CombinePrep(shared).v), 1, Len(disk))
          /\ Len(CombinePrep(shared).v.chapter_files) = Len(shared["chapter_order"])

\* the step that aborts changes no stored result
HaltingStep ==
    (error = NoError /\ error' # NoError) =>
        /\ DOMAIN shared' \cap ResultKeys = DOMAIN shared \cap ResultKeys
        /\ \A k \in DOMAIN shared \cap ResultKeys : shared'[k] = shared[k]

\* C9: when a node aborts, the shared dictionary still holds, unchanged, the
\* result of every node completed before it and no result of the aborted node,
\* and no tutorial file has been written by an abort before CombineTutorial.exec;
\* files are written only from the complete index and chapter documents that
\* CombineTutorial.prep has built.
C9_HaltKeepsEarlierResults == [](HaltedState) /\ [][HaltingStep]_vars

\* CombineTutorial.prep aborted after every earlier node had stored its result
C9_Witness ==
    /\ pc = "CombineTutorial.prep"
    /\ error # NoError
    /\ Len(shared["chapters"]) = MaxAbs
    /\ disk = <<>>

\* no step removes a key of the shared dictionary or changes the value stored
\* under one
StoredValuesKept ==
    \A k \in DOMAIN shared : k \in DOMAIN shared' /\ shared'[k] = shared[k]

\* C10 as the specification states it: every step keeps every stored value
\* and adds at most the result key of its own node.
C10_OnlyOwnKey ==
    [][/\ StoredValuesKept
       /\ (DOMAIN shared' \ DOMAIN shared) \subseteq OwnKeys(pc)]_vars

\* C10: every step keeps every value stored in the shared dictionary, so the
\* file list is the same in every node after FetchRepo and the abstractions
\* are the same after IdentifyAbstractions; and every step adds at most the
\* result key of its own node, except that FetchRepo also adds project_name
\* when none was given.
C10_AppendOnly ==
    [][/\ StoredValuesKept
       /\ (DOMAIN shared' \ DOMAIN shared) \subseteq
              OwnKeys(pc) \cup (IF pc = "FetchRepo" /\ "project_name" \notin DOMAIN shared
                                THEN {"project_name"} ELSE {})]_vars

\* a run given no project name has stored all six results
C10_Witness ==
    /\ pc = "done"
    /\ ResultKeys \subseteq DOMAIN shared
    /\ shared["project_name"] = <<"R">>
    /\ Len(shared["abstractions"]) = MaxAbs

---------------------------------------------------------------------------
(* The fenced block: the three stages that parse YAML, on responses with    *)
(* text around the block, several blocks, or none                           *)

\* where the block of a response may stand: alone, inside text, before a
\* second block, after a block with no yaml tag, unclosed, or nowhere
FenceLayouts(first, second) ==
    {Fenced(first),
     <<PText, POpen, PYaml(first), PFence, PText>>,
     <<POpen, PYaml(first), PFence, PText, POpen, PYaml(second), PFence>>,
     <<PFence, PYaml(second), PFence, POpen, PYaml(first), PFence>>,
     <<POpen, PYaml(first)>>,
     <<POpen, PFence, POpen, PYaml(second), PFence>>,
     <<PYaml(first)>>,
     <<PFence, PYaml(first), PFence>>,
     <<PText>>}

\* the responses of a stage whose blocks hold two of the documents docs
FenceResponses(docs) ==
    UNION {FenceLayouts(first, second) : first \in docs, second \in docs}

FenceIdentifyResponses ==
    FenceResponses({YList(<<>>), YList(<<AbstractionItem(YStr(<<"X">>), <<>>)>>),
                    YList(<<AbstractionItem(YStr(<<"X">>), <<YInt(MaxFiles)>>)>>)})

FenceAnalyzeResponses ==
    FenceResponses({RelationshipsDoc(<<>>),
                    RelationshipsDoc(<<RelationshipItem(YInt(0), YInt(0), <<"x">>)>>),
                    YList(<<>>)})

FenceOrderResponses ==
    FenceResponses({YList(<<>>), YList(<<YInt(0)>>), YList(<<YInt(1), YInt(0)>>)})

\* the flow entered at any of the three stages
InitFence ==
    /\ \E files_list \in FileLists, n \in 0..MaxAbs, at \in 1..3 :
          /\ pc = <<"IdentifyAbstractions", "AnalyzeRelationships", "OrderChapters">>[at]
          /\ shared =
                IF at = 1 THEN Put(FetchPrep(RepoShared), "files", files_list)
                ELSE IF at = 2
                THEN Put(Put(FetchPrep(RepoShared), "files", files_list),
                         "abstractions", StoredAbstractions(n))
                ELSE Put(Put(Put(FetchPrep(RepoShared), "files", files_list),
                             "abstractions", StoredAbstractions(n)),
                         "relationships", [summary |-> <<"s">>, details |-> <<>>])
    /\ error = NoError
    /\ writer = <<>>
    /\ prep_res = <<>>
    /\ exec_res_list = <<>>
    /\ response = <<>>
    /\ llm_calls = <<>>
    /\ disk = <<>>

NextFence ==
    \/ IdentifyAbstractions(FenceIdentifyResponses)
    \/ AnalyzeRelationships(FenceAnalyzeResponses)
    \/ OrderChapters(FenceOrderResponses)

SpecFence == InitFence /\ [][NextFence]_vars

\* the response holds a start marker
HasStartMarker == \E i \in 1..Len(response) : response[i] = POpen

\* the position of the first start marker of the response
FirstMarker ==
    CHOOSE i \in 1..Len(response) :
        response[i] = POpen /\ \A j \in 1..(i - 1) : response[j] # POpen

\* the position of the fence that closes the first block, or the position
\* after the end of a response that does not close it
FirstClose ==
    IF \E j \in (FirstMarker + 1)..Len(response) : response[j] \in {POpen, PFence}
    THEN CHOOSE j \in (FirstMarker + 1)..Len(response) :
            /\ response[j] \in {POpen, PFence}
            /\ \A h \in (FirstMarker + 1)..(j - 1) : response[h] \notin {POpen, PFence}
    ELSE Len(response) + 1

\* the response cut down to its first block
FirstBlock ==
    <<POpen>> \o SubSeq(response, FirstMarker + 1, FirstClose - 1) \o <<PFence>>

\* the stage ended as exec ends on the response res: its value stored under
\* key, or its exception raised and nothing stored under key
EndedAs(res, key) ==
    IF res.ok
    THEN error = NoError /\ key \in DOMAIN shared /\ shared[key] = res.v
    ELSE error = res.err /\ key \notin DOMAIN shared

\* the stage failed for want of a start marker and stored nothing under key
NoBlockFailure(key) ==
    /\ error.exc = "IndexError"
    /\ key \notin DOMAIN shared

\* C11: at each of the three stages that parse YAML, a response without the
\* start marker of a YAML block makes the stage fail and store no result;
\* a response with one or more blocks is treated as the response that holds
\* only its first block, from the first start marker to the next fence.
C11_FirstFencedBlock ==
    /\ IdentifyActed =>
          IF HasStartMarker
          THEN EndedAs(IdentifyExec(FirstBlock, Len(shared["files"])), "abstractions")
          ELSE NoBlockFailure("abstractions")
    /\ AnalyzeActed =>
          IF HasStartMarker
          THEN EndedAs(AnalyzeExec(FirstBlock, AbstractionListing(shared["abstractions"])),
                       "relationships")
          ELSE NoBlockFailure("relationships")
    /\ OrderActed =>
          IF HasStartMarker
          THEN EndedAs(OrderExec(FirstBlock, Len(shared["abstractions"])),
                       "chapter_order")
          ELSE NoBlockFailure("chapter_order")

\* OrderChapters stored the order of the first of two different blocks
C11_Witness ==
    /\ OrderActed
    /\ error = NoError
    /\ Len(response) = 7
    /\ response[2] # response[6]
    /\ shared["chapter_order"] = <<1, 0>>

---------------------------------------------------------------------------
(* Filenames, diagram and documents: properties of WriteChapters.prep and   *)
(* CombineTutorial.prep, under Spec                                         *)

\* WriteChapters.prep has built its items and the batch is not stored yet
WriterPrepared ==
    pc \in {"WriteChapters.exec", "WriteChapters.post"} /\ prep_res # <<>>

\* CombineTutorial.prep has built the documents
AssemblerPrepared == pc \in {"CombineTutorial.exec", "CombineTutorial.post"}

\* the filename WriteChapters.prep gave the chapter of position p (1-based)
WriterFilename(p) ==
    prep_res[1].chapter_filenames[shared["chapter_order"][p]].filename

\* C12: the filenames computed for two different positions of chapter_order
\* differ, in WriteChapters.prep and in CombineTutorial.prep, also when the
\* names of the two abstractions sanitize to the same string.
C12_FilenamesInjective ==
    /\ WriterPrepared =>
          \A p, q \in 1..Len(shared["chapter_order"]) :
              p # q => WriterFilename(p) # WriterFilename(q)
    /\ AssemblerPrepared =>
          \A p, q \in 1..Len(prep_res.chapter_files) :
              p # q => prep_res.chapter_files[p].filename
                           # prep_res.chapter_files[q].filename

\* the documents were built for three chapters, two of them for abstractions
\* whose names sanitize to the same string
C12_Witness ==
    /\ AssemblerPrepared
    /\ Len(prep_res.chapter_files) = 3
    /\ \E a, b \in 1..Len(shared["abstractions"]) :
          /\ a # b
          /\ shared["abstractions"][a].name.s # shared["abstractions"][b].name.s
          /\ SafeName(shared["abstractions"][a].name.s)
                 = SafeName(shared["abstractions"][b].name.s)

\* the diagram of an index document: the text between the line that opens the
\* mermaid block and the line break before the fence that closes it
DiagramOf(index_content) ==
    LET open == CHOOSE i \in 1..Len(index_content) : index_content[i] = "fence_mermaid"
        close == CHOOSE i \in 1..Len(index_content) :
                    /\ index_content[i] = "fence"
                    /\ \A h \in 1..(i - 1) : index_content[h] # "fence"
    IN  SubSeq(index_content, open + 2, close - 2)

\* the line break and node line of the abstraction at index i (0-based)
NodeText(i) ==
    <<"\n", "    ", "A">> \o IntStr(i) \o <<"[", "\"">>
    \o SelectSeq(shared["abstractions"][i + 1].name.s, LAMBDA c : c # "\"")
    \o <<"\"", "]">>

\* the line break and edge line of the j-th stored relationship
EdgeText(j) ==
    <<"\n", "    ", "A">> \o IntStr(shared["relationships"].details[j].from)
    \o <<" -- ", "\"">> \o EdgeLabel(shared["relationships"].details[j].label)
    \o <<"\"", " --> ", "A">> \o IntStr(shared["relationships"].details[j].to)

\* the node lines of the abstractions 0..n-1, in that order
RECURSIVE NodeTexts(_)
NodeTexts(n) == IF n = 0 THEN <<>> ELSE NodeTexts(n - 1) \o NodeText(n - 1)

\* the edge lines of the relationships 1..m, in that order
RECURSIVE EdgeTexts(_)
EdgeTexts(m) == IF m = 0 THEN <<>> ELSE EdgeTexts(m - 1) \o EdgeText(m)

\* C13: the diagram of the index document is the flowchart header, then one
\* node line A<i>["name without quotes"] per abstraction in index order, then
\* one edge line A<from> -- "label" --> A<to> per relationship in order, and
\* nothing else; the filename of a chapter document is built from its position
\* in chapter_order and the name of the abstraction at that position.
C13_DiagramAndFilenames ==
    AssemblerPrepared =>
        /\ DiagramOf(prep_res.index_content) =
               <<"flowchart TD">> \o NodeTexts(Len(shared["abstractions"]))
               \o EdgeTexts(Len(shared["relationships"].details))
        /\ \A p \in 1..Len(prep_res.chapter_files) :
              prep_res.chapter_files[p].filename =
                  (IF p < 10 THEN <<"0">> ELSE <<>>) \o IntStr(p) \o <<"_">>
                  \o SafeName(shared["abstractions"][shared["chapter_order"][p] + 1].name.s)
                  \o <<".md">>

\* abstractions X and Y"y with edges 0 -> 0 "x" and 0 -> 1 "uses", ordered
\* [1, 0]: files 01_y_y.md and 02_x.md, nodes A0["X"] and A1["Yy"], and the
\* two edges
C13_Witness ==
    /\ AssemblerPrepared
    /\ shared["chapter_order"] = <<1, 0>>
    /\ prep_res.chapter_files[1].filename = <<"0", "1", "_", "y", "_", "y", ".md">>
    /\ prep_res.chapter_files[2].filename = <<"0", "2", "_", "x", ".md">>
    /\ DiagramOf(prep_res.index_content) =
           <<"flowchart TD", "\n",
             "    ", "A", "0", "[", "\"", "X", "\"", "]", "\n",
             "    ", "A", "1", "[", "\"", "Y", "y", "\"", "]", "\n",
             "    ", "A", "0", " -- ", "\"", "x", "\"", " --> ", "A", "0", "\n",
             "    ", "A", "0", " -- ", "\"", "u", "s", "e", "s", "\"", " --> ", "A", "1">>

---------------------------------------------------------------------------
(* CombineTutorial alone, on relationship labels of every length up to      *)
(* MaxLabelLen and on chapter lists of every length up to the order's       *)

\* the longest relationship label, longer than max_label_len
MaxLabelLen == 33

\* labels of every length, plain or with one quote or one line break at any
\* position
Labels ==
    {[i \in 1..len |-> IF i = at THEN special
                       ELSE IF i % 2 = 0 THEN "a" ELSE "b"] :
        len \in 0..MaxLabelLen, at \in 0..MaxLabelLen, special \in {"\"", "\n"}}

\* chapter texts that end with no, one, two and three line breaks
ChapterTexts == {<<"t">> \o [i \in 1..k |-> "\n"] : k \in 0..3}

\* the chapters WriteChapters stores for an order of MaxAbs positions
FullChapters == [i \in 1..MaxAbs |-> <<"t">>]

\* the shared dictionary when CombineTutorial starts: MaxAbs abstractions in
\* reverse order, one relationship with the given label, the given chapters
CombineShared(label, chapters) ==
    [k \in DOMAIN FetchPrep(RepoShared)
           \cup {"files", "abstractions", "relationships", "chapter_order", "chapters"} |->
        CASE k = "files" -> <<>>
          [] k = "abstractions" -> StoredAbstractions(MaxAbs)
          [] k = "relationships" ->
                [summary |-> <<"s">>,
                 details |-> <<[from |-> 0, to |-> MaxAbs - 1, label |-> label]>>]
          [] k = "chapter_order" -> [i \in 1..MaxAbs |-> MaxAbs - i]
          [] k = "chapters" -> chapters
          [] OTHER -> FetchPrep(RepoShared)[k]]

InitCombine ==
    /\ \/ \E label \in Labels : shared = CombineShared(label, FullChapters)
       \/ \E chapters \in SeqsUpTo(ChapterTexts, MaxAbs) :
             shared = CombineShared(<<"x">>, chapters)
    /\ pc = "CombineTutorial.prep"
    /\ error = NoError
    /\ writer = <<>>
    /\ prep_res = <<>>
    /\ exec_res_list = <<>>
    /\ response = <<>>
    /\ llm_calls = <<>>
    /\ disk = <<>>

NextCombine ==
    \/ CombineTutorial_prep
    \/ CombineTutorial_exec
    \/ CombineTutorial_post

SpecCombine == InitCombine /\ [][NextCombine]_vars

\* the label of the first stored relationship with its quotes removed and its
\* line breaks turned into spaces
SanitizedLabel ==
    [i \in 1..Len(SelectSeq(shared["relationships"].details[1].label,
                            LAMBDA c : c # "\"")) |->
        IF SelectSeq(shared["relationships"].details[1].label,
                     LAMBDA c : c # "\"")[i] = "\n"
        THEN " "
        ELSE SelectSeq(shared["relationships"].details[1].label,
                       LAMBDA c : c # "\"")[i]]

\* the label the diagram of prep_res shows on its first edge: the text between
\* the quote after " -- " and the quote before " --> "
RenderedLabel ==
    SubSeq(prep_res.index_content,
           (CHOOSE i \in 1..Len(prep_res.index_content) :
               /\ prep_res.index_content[i] = " -- "
               /\ \A h \in 1..(i - 1) : prep_res.index_content[h] # " -- ") + 2,
           (CHOOSE i \in 1..Len(prep_res.index_content) :
               /\ prep_res.index_content[i] = " --> "
               /\ \A h \in 1..(i - 1) : prep_res.index_content[h] # " --> ") - 2)

\* C14: a relationship label that is longer than 30 characters once its
\* quotes are removed and its line breaks replaced is shown in the diagram as
\* its first 27 characters followed by three dots; a label of 30 characters or
\* fewer is shown unchanged; no label in the diagram is longer than 30.
C14_LabelTruncation ==
    (AssemblerPrepared /\ Len(shared["relationships"].details) > 0) =>
        /\ RenderedLabel =
               IF Len(SanitizedLabel) > 30
               THEN SubSeq(SanitizedLabel, 1, 27) \o <<".", ".", ".">>
               ELSE SanitizedLabel
        /\ Len(RenderedLabel) <= 30

\* a label of 32 characters, 31 once its quote is removed, is shown with 30
C14_Witness ==
    /\ AssemblerPrepared
    /\ Len(shared["relationships"].details[1].label) = 32
    /\ Len(SanitizedLabel) = 31
    /\ Len(RenderedLabel) = 30

\* the chapter text without the line breaks it ends with
RECURSIVE WithoutTrailingNewlines(_)
WithoutTrailingNewlines(text) ==
    IF text # <<>> /\ text[Len(text)] = "\n"
    THEN WithoutTrailingNewlines(SubSeq(text, 1, Len(text) - 1))
    ELSE text

\* C16: a chapter document is the chapter text, one blank line, the line
\* "---", a blank line and the attribution line, whatever number of line
\* breaks the chapter text ends with; the document ends with the attribution.
C16_OneBlankLine ==
    AssemblerPrepared =>
        \A p \in 1..Len(prep_res.chapter_files) :
            /\ prep_res.chapter_files[p].content =
                   WithoutTrailingNewlines(shared["chapters"][p])
                   \o <<"\n", "\n", "-", "-", "-", "\n", "\n">> \o Attribution
            /\ EndsWith(prep_res.chapter_files[p].content, Attribution)

\* a chapter that ends with one line break got two blank lines before "---"
C16_Witness ==
    /\ AssemblerPrepared
    /\ Len(prep_res.chapter_files) >= 1
    /\ shared["chapters"][1] = <<"t", "\n">>
    /\ prep_res.chapter_files[1].content =
           <<"t", "\n", "\n", "\n", "-", "-", "-", "\n", "\n">> \o Attribution

\* the filename of the chapter at position p (1-based) of chapter_order
PositionFilename(p) ==
    (IF p < 10 THEN <<"0">> ELSE <<>>) \o IntStr(p) \o <<"_">>
    \o SafeName(shared["abstractions"][shared["chapter_order"][p] + 1].name.s)
    \o <<".md">>

\* the index link of the chapter at position p (1-based)
PositionLink(p) ==
    IntStr(p) \o <<".", " ", "[">>
    \o shared["abstractions"][shared["chapter_order"][p] + 1].name.s
    \o <<"]", "(">> \o PositionFilename(p) \o <<")", "\n">>

\* the index links of positions 1..k, in that order
RECURSIVE PositionLinks(_)
PositionLinks(k) == IF k = 0 THEN <<>> ELSE PositionLinks(k - 1) \o PositionLink(k)

\* the chapter links of an index document: the text between the blank line
\* after "## Chapters" and the blank line before the footer
LinksOf(index_content) ==
    LET at == CHOOSE i \in 1..Len(index_content) : index_content[i] = "## Chapters"
    IN  SubSeq(index_content, at + 3, Len(index_content) - 7 - Len(Attribution))

\* C17: with fewer chapters than positions in chapter_order, CombineTutorial.prep
\* does not fail: it builds the index document, and a chapter document and an
\* index link for exactly the positions that have a chapter, each under its
\* position's filename and holding the chapter of that position.
C17_ShortChaptersTolerated ==
    /\ error # NoError => pc # "CombineTutorial.prep"
    /\ (AssemblerPrepared /\ Len(shared["chapters"]) <= Len(shared["chapter_order"])) =>
          /\ Len(prep_res.chapter_files) = Len(shared["chapters"])
          /\ \A p \in 1..Len(prep_res.chapter_files) :
                /\ prep_res.chapter_files[p].filename = PositionFilename(p)
                /\ StartsWith(prep_res.chapter_files[p].content, shared["chapters"][p])
          /\ LinksOf(prep_res.index_content) = PositionLinks(Len(shared["chapters"]))
          /\ EndsWith(prep_res.index_content, Attribution)

\* the documents were built from one chapter for an order of several positions
C17_Witness ==
    /\ AssemblerPrepared
    /\ Len(shared["chapters"]) = 1
    /\ Len(shared["chapter_order"]) > 1
    /\ Len(prep_res.chapter_files) = 1
    /\ LinksOf(prep_res.index_content) = PositionLink(1)

---------------------------------------------------------------------------
(* The filenames of WriteChapters against those of CombineTutorial *)

\* the step in which CombineTutorial.prep builds the documents; before it
\* prep_res holds the items of WriteChapters.prep, after it the documents
AssemblerStep == pc = "CombineTutorial.prep" /\ pc' = "CombineTutorial.exec"

\* the listing line of position p for a file name
ListingLine(p, filename) ==
    IntStr(p) \o <<".", " ", "[">>
    \o shared["abstractions"][shared["chapter_order"][p] + 1].name.s
    \o <<"]", "(">> \o filename \o <<")">>

\* the index links to the first k of the chapter files
RECURSIVE LinkLines(_, _)
LinkLines(files, k) ==
    IF k = 0 THEN <<>>
    ELSE LinkLines(files, k - 1) \o ListingLine(k, files[k].filename) \o <<"\n">>

\* an item has no predecessor exactly at the first position and no successor
\* exactly at the last
ReferencesAtBoundaries ==
    WriterPrepared =>
        /\ Len(prep_res) = Len(shared["chapter_order"])
        /\ \A p \in 1..Len(prep_res) :
              /\ prep_res[p].prev_chapter = NoChapter <=> p = 1
              /\ prep_res[p].next_chapter = NoChapter <=> p = Len(prep_res)

\* the chapter document of each position is emitted, and linked from the
\* index, under the filename WriteChapters gave the position in its mapping, in
\* the listing of every item, and in the references of the neighbours
SameFilenames ==
    AssemblerStep =>
        /\ Len(prep_res'.chapter_files) = Len(prep_res)
        /\ \A p \in 1..Len(prep_res) :
              /\ prep_res[p].chapter_filenames[shared["chapter_order"][p]].filename
                     = prep_res'.chapter_files[p].filename
              /\ prep_res[p].full_chapter_listing =
                     Join(<<"\n">>,
                          [q \in 1..Len(prep_res) |->
                              ListingLine(q, prep_res'.chapter_files[q].filename)])
              /\ p > 1 =>
                    /\ prep_res[p - 1].next_chapter # NoChapter
                    /\ prep_res[p - 1].next_chapter.filename
                           = prep_res'.chapter_files[p].filename
              /\ p < Len(prep_res) =>
                    /\ prep_res[p + 1].prev_chapter # NoChapter
                    /\ prep_res[p + 1].prev_chapter.filename
                           = prep_res'.chapter_files[p].filename
        /\ LinksOf(prep_res'.index_content)
               = LinkLines(prep_res'.chapter_files, Len(prep_res))

\* C18: in every run in which OrderChapters stored an order and WriteChapters
\* wrote every chapter, the filename WriteChapters uses for a position (in the
\* full chapter listing and in the predecessor and successor references) is
\* the filename under which CombineTutorial emits the chapter of that position
\* and links it from the index; the predecessor is absent only at the first
\* position and the successor only at the last.
C18_LinksConsistent == [](ReferencesAtBoundaries) /\ [][SameFilenames]_vars

\* the documents of three chapters were built after WriteChapters listed them:
\* the first prompt's listing ends with the link to the third document
C18_Witness ==
    /\ AssemblerPrepared
    /\ Len(llm_calls) = 3
    /\ Len(prep_res.chapter_files) = 3
    /\ EndsWith(llm_calls[1].full_chapter_listing,
                <<"(">> \o prep_res.chapter_files[3].filename \o <<")">>)

---------------------------------------------------------------------------
(* WriteChapters alone, on every kind of chapter the LLM may return *)

\* the shared dictionary when WriteChapters starts: 1..MaxAbs abstractions,
\* ordered last to first
InitWrite ==
    /\ \E n \in 1..MaxAbs :
          shared = Put(Put(Put(Put(FetchPrep(RepoShared), "files", <<>>),
                               "abstractions", StoredAbstractions(n)),
                           "relationships", [summary |-> <<"s">>, details |-> <<>>]),
                       "chapter_order", [i \in 1..n |-> n - i])
    /\ pc = "WriteChapters.prep"
    /\ error = NoError
    /\ writer = <<>>
    /\ prep_res = <<>>
    /\ exec_res_list = <<>>
    /\ response = <<>>
    /\ llm_calls = <<>>
    /\ disk = <<>>

NextWrite ==
    \/ WriteChapters_prep
    \/ WriteChapters_exec(AllChapterKinds)
    \/ WriteChapters_post

SpecWrite == InitWrite /\ [][NextWrite]_vars

\* the heading line asked of the chapter at position p (1-based)
ExpectedHeading(p) ==
    <<"#", " ", "Chapter", " ">> \o IntStr(p) \o <<":", " ">>
    \o shared["abstractions"][shared["chapter_order"][p] + 1].name.s

\* text begins with the line heading
BeginsWithLine(text, heading) ==
    /\ Len(text) >= Len(heading)
    /\ SubSeq(text, 1, Len(heading)) = heading
    /\ Len(text) > Len(heading) => text[Len(heading) + 1] = "\n"

\* C15: whatever the LLM returns for a chapter, WriteChapters does not fail on
\* it, and the chapter it keeps begins with the line "# Chapter n: name" for
\* the chapter's number and the abstraction's name.
C15_HeadingNormalized ==
    /\ error # NoError => error = LLMError
    /\ \A p \in 1..Len(exec_res_list) :
          BeginsWithLine(exec_res_list[p], ExpectedHeading(p))

\* a chapter headed "# Chapter 1: W" was kept for an abstraction of another
\* name
C15_Witness ==
    /\ Len(exec_res_list) >= 1
    /\ response = <<"#", " ", "Chapter", " ", "1", ":", " ", "W", "\n", "t">>
    /\ exec_res_list[1] = response
    /\ ExpectedHeading(1) # <<"#", " ", "Chapter", " ", "1", ":", " ", "W">>

=============================================================================
